---- MODULE Spec2Model ----
(***************************************************************************)
(* Model of the rover's motor control core: the MotorController            *)
(* (core/motor_controller.py) driving either the simulated GPIO driver     *)
(* (utils/gpio_mock.py) or the hardware driver (utils/gpio_real.py).       *)
(*                                                                         *)
(* Every driver call a controller operation makes (setup_pin, set_pin,     *)
(* pwm.stop, GPIO.cleanup, ...) is one step, so the states between two     *)
(* writes of one operation are states of the model.  A speed is a Python   *)
(* float; it is represented here as an integer number of thousandths       *)
(* (speed = s / SpeedScale), with exact arithmetic.                        *)
(*                                                                         *)
(* Further parts: the driver factory (utils/gpio_factory.py), and the      *)
(* camera stream (vision/camera_stream_simple.py): its probe chain, its    *)
(* methods, and the generator of generate_frames, one step per call the    *)
(* loop makes.  Delays are integers, in milliseconds.                      *)
(***************************************************************************)
EXTENDS Integers, Sequences, FiniteSets, TLC

VARIABLES
    driver,       \* "mock" | "real": the driver instance the controller owns
    pin_states,   \* the driver's pin_states dict: pin -> last recorded value
    pwm_objects,  \* RealGPIOController.pwm_objects: the keys of the dict
    pwm_running,  \* hardware: PWM channels started and not yet stopped
    hw,           \* hardware: value last driven on each line (level or duty)
    pwm_duty,     \* hardware: duty cycle last applied to each PWM channel
    gpio_open,    \* hardware: the RPi.GPIO subsystem is initialised
    phase,        \* life cycle of the MotorController object
    frame,        \* per caller thread: the controller call in flight
    last_cmd,     \* history: the last directional operation that completed
    last_call,    \* the last call made directly on the driver, with its result
    written,      \* history: pin -> value of the last set_pin since its setup
    probe_env,    \* factory: what the four detection checks find
    fac_pc,       \* factory: position inside create_gpio_controller
    fac_out,      \* factory: branch taken, constructions tried, result
    camera,       \* SimpleCameraStream.camera: the handle it references
    camera_type,  \* SimpleCameraStream.camera_type: the active backend tag
    handle,       \* capture handles: candidate -> state of its handle object
    cam_pc,       \* position inside SimpleCameraStream._setup_camera
    probe_log,    \* history: the calls the probe chain made, with outcomes
    is_streaming, \* SimpleCameraStream.is_streaming
    gen,          \* the generator made by generate_frames(): position, locals
    stream_call,  \* the last call made on the stream object, with its result
    viewers       \* per request thread: the generator its video_feed made

drvVars == <<driver, pin_states, pwm_objects, pwm_running, hw, pwm_duty,
             gpio_open>>

ctlVars == <<phase, frame, last_cmd>>

benchVars == <<last_call, written>>

facVars == <<probe_env, fac_pc, fac_out>>

camVars == <<camera, camera_type, handle, cam_pc, probe_log>>

strVars == <<is_streaming, gen, stream_call, viewers>>

vars == <<drvVars, ctlVars, benchVars, facVars, camVars, strVars>>

(*************************** bounds and constants **************************)

\* Number of caller threads (request handler threads of the threaded server).
NumThreads == 2

\* Fixed-point unit of a speed: speed = s / SpeedScale.
SpeedScale == 1000

\* int(speed * 100): the factor of the percent conversion.
PwmScale == 100

\* max(0, min(100, int(value))): upper clamp of a duty cycle.
PwmMax == 100

Threads == 1..NumThreads

\* The serialized caller (the test script, or one request at a time).
MainThread == 1

\* Speeds the callers pass, in thousandths: below, inside and above [0,1],
\* with values whose percent is not a whole number of hundredths.
Speeds == {-500, -5, 0, 499, 500, 995, 1000, 1500}

\* Speeds used by the concurrent request handlers.
ThreadedSpeeds == {500}

InContract(s) == 0 <= s /\ s <= SpeedScale

(******************************* pin layout ********************************)

left_motor_pins == [forward |-> 17, backward |-> 18, enable |-> 22]

right_motor_pins == [forward |-> 23, backward |-> 24, enable |-> 25]

Sides == {left_motor_pins, right_motor_pins}

Pins == {17, 18, 22, 23, 24, 25}

DirPins == {17, 18, 23, 24}

EnablePins == {22, 25}

EmptyTable == [p \in {} |-> 0]

(************************* the two driver variants *************************)

\* dict[p] = v
Put(ps, p, v) == [q \in (DOMAIN ps) \cup {p} |-> IF q = p THEN v ELSE ps[q]]

\* dict.get(p, 0)
Get(ps, p) == IF p \in DOMAIN ps THEN ps[p] ELSE 0

\* The state of the driver object and of the lines behind it, as one value.
Drv == [ps |-> pin_states, pwm |-> pwm_objects, run |-> pwm_running,
        hw |-> hw, duty |-> pwm_duty, open |-> gpio_open]

\* gpio_mock.GPIOController
MockSetupPin(d, p, mode) == [d EXCEPT !.ps = Put(d.ps, p, 0)]

\* A faulty variant of MockSetPin: the value is coerced to a duty cycle.
MockSetPinClamped(d, p, v) ==
    [d EXCEPT !.ps = Put(d.ps, p, IF v < 0 THEN 0 ELSE IF v > 100 THEN 100 ELSE v)]

MockSetPin(d, p, v) == [d EXCEPT !.ps = Put(d.ps, p, v)]

MockGetPinState(d, p) == Get(d.ps, p)

MockCleanup(d) == [d EXCEPT !.ps = EmptyTable]

\* A faulty variant of Clamp: a full duty cycle is never applied.
ClampBelowFull(v) == IF v < 0 THEN 0 ELSE IF v >= PwmMax THEN PwmMax - 1 ELSE v

\* gpio_real.RealGPIOController: max(0, min(100, int(value)))
Clamp(v) == IF v < 0 THEN 0 ELSE IF v > PwmMax THEN PwmMax ELSE v

RealSetupPin(d, p, mode) ==
    IF mode = "OUT"
    THEN [d EXCEPT !.hw[p] = 0, !.ps = Put(d.ps, p, 0)]
    ELSE IF mode = "PWM"
    THEN [d EXCEPT !.hw[p] = 0, !.run = @ \cup {p}, !.pwm = @ \cup {p},
                   !.duty = Put(d.duty, p, 0), !.ps = Put(d.ps, p, 0)]
    ELSE d

RealSetPin(d, p, v) ==
    IF p \in d.pwm
    THEN [d EXCEPT !.hw[p] = Clamp(v), !.duty = Put(d.duty, p, Clamp(v)),
                   !.ps = Put(d.ps, p, Clamp(v))]
    ELSE IF v > 0
    THEN [d EXCEPT !.hw[p] = 1, !.ps = Put(d.ps, p, 1)]
    ELSE [d EXCEPT !.hw[p] = 0, !.ps = Put(d.ps, p, 0)]

\* pwm.stop() of one channel, in RealGPIOController.cleanup's loop
RealPwmStop(d, p) == [d EXCEPT !.run = @ \ {p}]

\* self.GPIO.cleanup(): every line goes back to an input
RealGpioCleanup(d) == [d EXCEPT !.open = FALSE, !.hw = [q \in Pins |-> 0]]

RealClearStates(d) == [d EXCEPT !.ps = EmptyTable]

RealClearPwm(d) == [d EXCEPT !.pwm = {}, !.duty = EmptyTable]

(************************** controller programs ****************************)

\* One driver call (or sleep) of a controller operation.
Instr(k, p, v, m) == [k |-> k, pin |-> p, val |-> v, mode |-> m]

Setup(p, m) == Instr("setup", p, 0, m)

Set(p, v) == Instr("set", p, v, "")

Sleep == Instr("sleep", 0, 0, "")

DrvCleanup == Instr("drv_cleanup", 0, 0, "")

\* An instruction that raised, as it appears in the log of the call.
Failed(i) == [i EXCEPT !.k = "fail"]

\* int(x / y), truncating toward zero as Python's int() does
TruncDiv(x, y) == IF x >= 0 THEN x \div y ELSE -((-x) \div y)

\* floor(x / y)
FloorDiv(x, y) == x \div y

\* A faulty variant of PwmValue: round(speed * 100), to the nearest percent.
PwmValueRounded(s) == (s * PwmScale + SpeedScale \div 2) \div SpeedScale

\* pwm_value = int(speed * 100)
PwmValue(s) == TruncDiv(s * PwmScale, SpeedScale)

\* MotorController._setup_pins
SetupProg ==
    << Setup(left_motor_pins.forward, "OUT"),
       Setup(left_motor_pins.backward, "OUT"),
       Setup(left_motor_pins.enable, "PWM"),
       Setup(right_motor_pins.forward, "OUT"),
       Setup(right_motor_pins.backward, "OUT"),
       Setup(right_motor_pins.enable, "PWM") >>

\* MotorController._set_motor_direction
DirWrites(motor_pins, direction) ==
    IF direction = "forward"
    THEN << Set(motor_pins.forward, 1), Set(motor_pins.backward, 0) >>
    ELSE IF direction = "backward"
    THEN << Set(motor_pins.forward, 0), Set(motor_pins.backward, 1) >>
    ELSE << >>

\* MotorController._set_motor_speed
SpeedWrites(s) ==
    << Set(left_motor_pins.enable, PwmValue(s)),
       Set(right_motor_pins.enable, PwmValue(s)) >>

\* A faulty variant of StopProg: a stop that also drives the direction pins low.
StopProgResetsDirections ==
    << Set(17, 0), Set(18, 0), Set(23, 0), Set(24, 0) >> \o SpeedWrites(0)

\* MotorController.stop
StopProg == SpeedWrites(0)

\* The direction each directional operation gives the left and right motor.
LeftDir(op) ==
    IF op \in {"move_forward", "move_forward_in_seconds", "turn_right"}
    THEN "forward" ELSE "backward"

\* A faulty variant of RightDir: turn_left drives the right motor backward as well.
RightDirNoPivot(op) ==
    IF op \in {"move_forward", "move_forward_in_seconds"}
    THEN "forward" ELSE "backward"

RightDir(op) ==
    IF op \in {"move_forward", "move_forward_in_seconds", "turn_left"}
    THEN "forward" ELSE "backward"

\* A faulty variant of MoveProg: the speed is set before the directions.
MoveProgSpeedFirst(op, s) ==
    SpeedWrites(s)
      \o DirWrites(left_motor_pins, LeftDir(op))
      \o DirWrites(right_motor_pins, RightDir(op))

\* move_forward, move_backward, turn_left, turn_right
MoveProg(op, s) ==
    DirWrites(left_motor_pins, LeftDir(op))
      \o DirWrites(right_motor_pins, RightDir(op))
      \o SpeedWrites(s)

\* A faulty variant of TimedForwardProg: the stop is issued before the sleep.
TimedForwardStopsFirst(s) ==
    DirWrites(left_motor_pins, "forward")
      \o DirWrites(right_motor_pins, "forward")
      \o SpeedWrites(s) \o StopProg \o << Sleep >>

\* MotorController.move_forward_in_seconds
TimedForwardProg(s) ==
    DirWrites(left_motor_pins, "forward")
      \o DirWrites(right_motor_pins, "forward")
      \o SpeedWrites(s) \o << Sleep >> \o StopProg

\* MotorController.cleanup (the body of its try block)
CleanupProg == StopProg \o << Sleep, DrvCleanup >>

DirectionalOps == {"move_forward", "move_backward", "turn_left", "turn_right"}

MotorOps == DirectionalOps \cup {"move_forward_in_seconds", "stop"}

Prog(op, s) ==
    IF op = "init" THEN SetupProg
    ELSE IF op \in DirectionalOps THEN MoveProg(op, s)
    ELSE IF op = "move_forward_in_seconds" THEN TimedForwardProg(s)
    ELSE IF op = "stop" THEN StopProg
    ELSE CleanupProg

(************************* executing one instruction ***********************)

RECURSIVE InsertionOrder(_)
\* The keys of pwm_objects in the order dict.items() yields them: insertion
\* order, which for the controller's pins (22, then 25) is ascending order.
InsertionOrder(S) ==
    IF S = {} THEN << >>
    ELSE LET m == CHOOSE x \in S : \A y \in S : x <= y
         IN  << m >> \o InsertionOrder(S \ {m})

RECURSIVE StopAll(_)
StopAll(ps) ==
    IF ps = << >> THEN << >>
    ELSE << Instr("pwm_stop", Head(ps), 0, "") >> \o StopAll(Tail(ps))

\* The body of the driver's cleanup(), entered with driver state d.
DriverCleanupProg(d) ==
    IF driver = "mock"
    THEN << Instr("clear_states", 0, 0, "") >>
    ELSE StopAll(InsertionOrder(d.pwm))
           \o << Instr("gpio_cleanup", 0, 0, ""),
                 Instr("clear_states", 0, 0, ""),
                 Instr("clear_pwm", 0, 0, "") >>

\* The state of a driver of kind drv after instruction i succeeds on it.
ExecOn(drv, d, i) ==
    IF i.k = "setup"
    THEN IF drv = "mock" THEN MockSetupPin(d, i.pin, i.mode)
                         ELSE RealSetupPin(d, i.pin, i.mode)
    ELSE IF i.k = "set"
    THEN IF drv = "mock" THEN MockSetPin(d, i.pin, i.val)
                         ELSE RealSetPin(d, i.pin, i.val)
    ELSE IF i.k = "pwm_stop" THEN RealPwmStop(d, i.pin)
    ELSE IF i.k = "gpio_cleanup" THEN RealGpioCleanup(d)
    ELSE IF i.k = "clear_states"
    THEN IF drv = "mock" THEN MockCleanup(d) ELSE RealClearStates(d)
    ELSE IF i.k = "clear_pwm" THEN RealClearPwm(d)
    ELSE d

\* The driver state after instruction i succeeds on the driver in use.
Exec(d, i) == ExecOn(driver, d, i)

\* The instructions that call into the hardware library and so may raise.
\* The simulated driver only writes its own dict: none of its calls fails;
\* nor does a setup_pin of the hardware driver whose mode matches no branch.
Fallible(i) ==
    /\ driver = "real"
    /\ \/ i.k \in {"set", "pwm_stop", "gpio_cleanup"}
       \/ i.k = "setup" /\ i.mode \in {"OUT", "PWM"}

\* The rest of the call after instruction i succeeded.
Continue(d, i, rest) ==
    IF i.k = "drv_cleanup" THEN DriverCleanupProg(d) \o rest ELSE rest

\* What is still executed of a call once one of its instructions raised:
\* the exception leaves every enclosing body (each except clause only logs).
AfterRaise(op, rest) == << >>

\* Faulty variants of Swallows: every except clause only logs; none does.
SwallowsAlways(op) == TRUE

SwallowsNever(op) == FALSE

\* Whether an exception raised inside operation op is caught and logged
\* (cleanup), rather than re-raised to the caller.
Swallows(op) == op = "cleanup"

(******************************* the state *********************************)

IdleFrame ==
    [op |-> "idle", speed |-> 0, prog |-> << >>, log |-> << >>,
     status |-> "idle", snap |-> EmptyTable]

NewFrame(op, s) ==
    [op |-> op, speed |-> s, prog |-> Prog(op, s), log |-> << >>,
     status |-> "running", snap |-> pin_states]

\* No call has been made directly on the driver.
NoCall == [op |-> "none", pin |-> 0, mode |-> "", val |-> 0, ret |-> 0,
           raised |-> FALSE, hwfail |-> FALSE]

BenchIdle == last_call = NoCall /\ written = EmptyTable

\* create_gpio_controller is not running.
FacIdle ==
    /\ probe_env = [dt |-> "missing", cpu |-> "missing", env |-> FALSE,
                    imp |-> FALSE]
    /\ fac_pc = "idle"
    /\ fac_out = [on_pi |-> FALSE, tried |-> << >>, result |-> "none"]

Candidates == <<"opencv", "picamera2", "legacy_picamera">>

CandidateSet == {Candidates[k] : k \in 1..Len(Candidates)}

\* No generator has been made by generate_frames().
NoGen ==
    [pc |-> "absent", consecutive_errors |-> 0, raised |-> FALSE,
     chunks |-> 0, chunk |-> "none", delay |-> 0, failed |-> 0,
     clean |-> TRUE]

\* No call has been made on the stream object.
NoStreamCall ==
    [op |-> "none", ret |-> "none", calls |-> 0, raised |-> FALSE,
     was_streaming |-> FALSE, was_type |-> "None"]

\* No request thread has a generator.
NoViewers == [t \in Threads |-> [pc |-> "absent", chunk |-> "none"]]

StreamIdle ==
    /\ is_streaming = FALSE
    /\ gen = NoGen
    /\ stream_call = NoStreamCall
    /\ viewers = NoViewers

\* No SimpleCameraStream is being constructed.
CamIdle ==
    /\ camera = "None"
    /\ camera_type = "None"
    /\ handle = [c \in CandidateSet |-> "absent"]
    /\ cam_pc = "idle"
    /\ probe_log = << >>
    /\ StreamIdle

\* The driver is constructed; MotorController.__init__ has been entered.
Init ==
    /\ driver \in {"mock", "real"}
    /\ pin_states = EmptyTable
    /\ pwm_objects = {}
    /\ pwm_running = {}
    /\ hw = [p \in Pins |-> 0]
    /\ pwm_duty = EmptyTable
    /\ gpio_open = (driver = "real")
    /\ phase = "constructing"
    /\ frame = [t \in Threads |->
                  IF t = MainThread THEN NewFrame("init", 0) ELSE IdleFrame]
    /\ last_cmd = "none"
    /\ BenchIdle
    /\ FacIdle
    /\ CamIdle

SetDrv(d) ==
    /\ pin_states' = d.ps
    /\ pwm_objects' = d.pwm
    /\ pwm_running' = d.run
    /\ hw' = d.hw
    /\ pwm_duty' = d.duty
    /\ gpio_open' = d.open

\* The life cycle of the controller once a call has ended with status st.
PhaseAfter(op, st) ==
    IF op = "init" THEN (IF st = "ok" THEN "ready" ELSE "failed")
    ELSE IF op = "cleanup" THEN "closed"
    ELSE phase

LastCmdAfter(op, st) ==
    IF op \in DirectionalOps \cup {"move_forward_in_seconds"}
    THEN (IF st = "ok" THEN op ELSE "partial")
    ELSE last_cmd

\* Thread t is inside a call with program `rest` left and outcome so far ok.
Advance(t, i, rest, failed) ==
    LET f   == frame[t]
        st  == IF failed /\ ~Swallows(f.op) THEN "raised"
               ELSE IF rest = << >> THEN "ok" ELSE "running"
        ent == IF failed THEN Failed(i) ELSE i
    IN  /\ frame' = [frame EXCEPT ![t] =
                       [f EXCEPT !.prog = IF st = "running" THEN rest ELSE << >>,
                                 !.log = Append(@, ent),
                                 !.status = st]]
        /\ IF st = "running"
           THEN UNCHANGED <<phase, last_cmd>>
           ELSE /\ phase' = PhaseAfter(f.op, st)
                /\ last_cmd' = LastCmdAfter(f.op, st)

(******************************** actions **********************************)

\* A caller enters a motor operation.
Call(t, op, s) ==
    /\ phase = "ready"
    /\ frame[t].status = "idle"
    /\ frame' = [frame EXCEPT ![t] = NewFrame(op, s)]
    /\ UNCHANGED <<drvVars, phase, last_cmd, benchVars, facVars, camVars, strVars>>

\* The owner enters MotorController.cleanup(), once.
CallCleanup(t) ==
    /\ phase = "ready"
    /\ frame[t].status = "idle"
    /\ frame' = [frame EXCEPT ![t] = NewFrame("cleanup", 0)]
    /\ phase' = "closing"
    /\ UNCHANGED <<drvVars, last_cmd, benchVars, facVars, camVars, strVars>>

\* The next instruction of thread t's call succeeds.
StepOk(t) ==
    /\ frame[t].status = "running"
    /\ LET i == Head(frame[t].prog)
           d == Exec(Drv, i)
       IN  /\ SetDrv(d)
           /\ Advance(t, i, Continue(Drv, i, Tail(frame[t].prog)), FALSE)
    /\ UNCHANGED <<driver, benchVars, facVars, camVars, strVars>>

\* A faulty variant of StepRaise: the driver records the value of the write
\* that raised.
StepRaiseRecords(t) ==
    /\ frame[t].status = "running"
    /\ Fallible(Head(frame[t].prog))
    /\ LET i == Head(frame[t].prog)
       IN  /\ SetDrv(Exec(Drv, i))
           /\ Advance(t, i, AfterRaise(frame[t].op, Tail(frame[t].prog)), TRUE)
    /\ UNCHANGED <<driver, benchVars, facVars, camVars, strVars>>

\* A faulty variant of StepRaise: the writes the call made are undone before
\* the exception reaches the caller.
StepRaiseRollsBack(t) ==
    /\ frame[t].status = "running"
    /\ Fallible(Head(frame[t].prog))
    /\ LET i == Head(frame[t].prog)
       IN  /\ SetDrv([Drv EXCEPT !.ps = frame[t].snap])
           /\ Advance(t, i, AfterRaise(frame[t].op, Tail(frame[t].prog)), TRUE)
    /\ UNCHANGED <<driver, benchVars, facVars, camVars, strVars>>

\* The next instruction of thread t's call raises: the driver records nothing.
StepRaise(t) ==
    /\ frame[t].status = "running"
    /\ Fallible(Head(frame[t].prog))
    /\ LET i == Head(frame[t].prog)
       IN  Advance(t, i, AfterRaise(frame[t].op, Tail(frame[t].prog)), TRUE)
    /\ UNCHANGED <<drvVars, benchVars, facVars, camVars, strVars>>

\* The call returns (or its exception reaches the caller).
Return(t) ==
    /\ frame[t].status \in {"ok", "raised"}
    /\ frame' = [frame EXCEPT ![t] = IdleFrame]
    /\ UNCHANGED <<drvVars, phase, last_cmd, benchVars, facVars, camVars, strVars>>

CallSpeed(op, s) == IF op = "stop" THEN 0 ELSE s

\* Serialized use: one caller, one operation at a time.
Next ==
    \/ \E op \in MotorOps, s \in Speeds : Call(MainThread, op, CallSpeed(op, s))
    \/ CallCleanup(MainThread)
    \/ StepOk(MainThread)
    \/ StepRaise(MainThread)
    \/ Return(MainThread)

Spec == Init /\ [][Next]_vars

RECURSIVE RunAll(_, _)
\* The driver state after every instruction of prog succeeded from d.
RunAll(d, prog) ==
    IF prog = << >> THEN d ELSE RunAll(Exec(d, Head(prog)), Tail(prog))

\* web/unified_app.py: the module builds the simulated driver and the
\* controller once, at import, before the threaded server takes requests.
InitThreaded ==
    /\ driver = "mock"
    /\ LET d == RunAll([ps |-> EmptyTable, pwm |-> {}, run |-> {},
                        hw |-> [p \in Pins |-> 0], duty |-> EmptyTable,
                        open |-> FALSE], SetupProg)
       IN  /\ pin_states = d.ps
           /\ pwm_objects = d.pwm
           /\ pwm_running = d.run
           /\ hw = d.hw
           /\ pwm_duty = d.duty
           /\ gpio_open = d.open
    /\ phase = "ready"
    /\ frame = [t \in Threads |-> IdleFrame]
    /\ last_cmd = "none"
    /\ BenchIdle
    /\ FacIdle
    /\ CamIdle

\* A faulty variant of HandlerCall: a handler waits until no other handler
\* is inside a motor operation.
HandlerCallSerialized(t, op, s) ==
    /\ phase = "ready"
    /\ \A u \in Threads : frame[u].status = "idle"
    /\ frame' = [frame EXCEPT ![t] = [NewFrame(op, s) EXCEPT !.snap = EmptyTable]]
    /\ UNCHANGED <<drvVars, phase, last_cmd, benchVars, facVars, camVars, strVars>>

\* A request handler thread enters a motor operation: nothing makes it wait
\* for another handler's call to end.
HandlerCall(t, op, s) ==
    /\ phase = "ready"
    /\ frame[t].status = "idle"
    /\ frame' = [frame EXCEPT ![t] = [NewFrame(op, s) EXCEPT !.snap = EmptyTable]]
    /\ UNCHANGED <<drvVars, phase, last_cmd, benchVars, facVars, camVars, strVars>>

\* Threaded request handlers calling the shared controller without a lock.
NextThreaded ==
    \/ \E t \in Threads, op \in MotorOps, s \in ThreadedSpeeds :
          HandlerCall(t, op, CallSpeed(op, s))
    \/ \E t \in Threads : StepOk(t)
    \/ \E t \in Threads : Return(t)

SpecThreaded == InitThreaded /\ [][NextThreaded]_vars

(********************* calls made directly on a driver *********************)

\* Pins, modes and values of the direct driver calls: a digital and a PWM
\* line; the two modes the drivers know and one they do not; values below,
\* inside and above the duty range.
BenchPins == {17, 22}

BenchModes == {"OUT", "PWM", "IN"}

BenchValues == {-3, 0, 1, 7, 150}

ValidModes == {"OUT", "PWM"}

\* dict without key p
Drop(ps, p) == [q \in (DOMAIN ps) \ {p} |-> ps[q]]

\* RealGPIOController.get_pin_state; readfail: GPIO.input raises.
RealGetPinState(d, p, readfail) ==
    IF p \in d.pwm THEN [ret |-> Get(d.ps, p), raised |-> FALSE]
    ELSE IF readfail THEN [ret |-> 0, raised |-> FALSE]
    ELSE [ret |-> d.hw[p], raised |-> FALSE]

\* Whether get_pin_state(p) reads the line (and so can meet a failing read).
ReadsHardware(d, p) == driver = "real" /\ p \notin d.pwm

\* A driver object, with no controller on top of it.
InitBench ==
    /\ driver \in {"mock", "real"}
    /\ pin_states = EmptyTable
    /\ pwm_objects = {}
    /\ pwm_running = {}
    /\ hw = [p \in Pins |-> 0]
    /\ pwm_duty = EmptyTable
    /\ gpio_open = (driver = "real")
    /\ phase = "bench"
    /\ frame = [t \in Threads |-> IdleFrame]
    /\ last_cmd = "none"
    /\ BenchIdle
    /\ FacIdle
    /\ CamIdle

BenchCall(op, p, m, v, ret, raised, hwfail) ==
    [op |-> op, pin |-> p, mode |-> m, val |-> v, ret |-> ret,
     raised |-> raised, hwfail |-> hwfail]

\* setup_pin(p, m) returns.
BenchSetupPin(p, m) ==
    /\ SetDrv(Exec(Drv, Setup(p, m)))
    /\ last_call' = BenchCall("setup_pin", p, m, 0, 0, FALSE, FALSE)
    /\ written' = IF driver = "real" /\ m \notin ValidModes
                  THEN written ELSE Drop(written, p)
    /\ UNCHANGED <<driver, ctlVars, facVars, camVars, strVars>>

\* set_pin(p, v) returns.
BenchSetPin(p, v) ==
    /\ SetDrv(Exec(Drv, Set(p, v)))
    /\ last_call' = BenchCall("set_pin", p, "", v, 0, FALSE, FALSE)
    /\ written' = Put(written, p, v)
    /\ UNCHANGED <<driver, ctlVars, facVars, camVars, strVars>>

\* setup_pin or set_pin raises out of the hardware driver: nothing recorded.
BenchRaise(i) ==
    /\ Fallible(i)
    /\ last_call' = BenchCall(IF i.k = "setup" THEN "setup_pin" ELSE "set_pin",
                              i.pin, i.mode, i.val, 0, TRUE, TRUE)
    /\ UNCHANGED <<drvVars, written, ctlVars, facVars, camVars, strVars>>

\* get_pin_state(p) returns.
BenchGetPinState(p, readfail) ==
    /\ readfail => ReadsHardware(Drv, p)
    /\ LET r == IF driver = "mock"
                THEN [ret |-> MockGetPinState(Drv, p), raised |-> FALSE]
                ELSE RealGetPinState(Drv, p, readfail)
       IN  last_call' = BenchCall("get_pin_state", p, "", 0, r.ret, r.raised,
                                  readfail)
    /\ UNCHANGED <<drvVars, written, ctlVars, facVars, camVars, strVars>>

\* The first k instructions of a program.
Prefix(prog, k) == [j \in 1..k |-> prog[j]]

\* cleanup() returns; with k > 0 its k-th driver call raised and was caught.
BenchCleanup(k) ==
    LET prog == DriverCleanupProg(Drv)
    IN  /\ k \in 0..Len(prog)
        /\ k > 0 => Fallible(prog[k])
        /\ SetDrv(RunAll(Drv, IF k = 0 THEN prog ELSE Prefix(prog, k - 1)))
        /\ last_call' = BenchCall("cleanup", 0, "", 0, 0, FALSE, k > 0)
        /\ written' = IF k = 0 THEN EmptyTable ELSE written
        /\ UNCHANGED <<driver, ctlVars, facVars, camVars, strVars>>

NextBench ==
    \/ \E p \in BenchPins, m \in BenchModes : BenchSetupPin(p, m)
    \/ \E p \in BenchPins, v \in BenchValues : BenchSetPin(p, v)
    \/ \E p \in BenchPins, m \in BenchModes : BenchRaise(Setup(p, m))
    \/ \E p \in BenchPins, v \in BenchValues : BenchRaise(Set(p, v))
    \/ \E p \in BenchPins, readfail \in BOOLEAN : BenchGetPinState(p, readfail)
    \/ \E k \in 0..Len(DriverCleanupProg(Drv)) : BenchCleanup(k)

SpecDriver == InitBench /\ [][NextBench]_vars

(************************** utils/gpio_factory.py **************************)

\* What a descriptor file can be: unreadable, readable without the board's
\* signature, readable with it.
Descriptors == {"missing", "neg", "pos"}

\* The environments create_gpio_controller can run in: the device tree model
\* file, /proc/cpuinfo, the RASPBERRY_PI variable, whether RPi.GPIO imports.
ProbeEnvs ==
    [dt : Descriptors, cpu : Descriptors, env : BOOLEAN, imp : BOOLEAN]

\* _is_running_on_pi(): each `with open(...)` body returns the result of its
\* test, positive or not; only an unreadable file falls through to the next
\* method.
IsRunningOnPi(e) ==
    IF e.dt # "missing" THEN e.dt = "pos"
    ELSE IF e.cpu # "missing" THEN e.cpu = "pos"
    ELSE IF e.env THEN TRUE
    ELSE e.imp

\* The ways a constructor call can raise.
FailureKinds == {"ImportError", "Exception"}

\* A faulty variant of OnRealFailure: only a missing interface is caught.
OnRealFailureImportOnly(kind) ==
    IF kind = "ImportError" THEN "fallback" ELSE "propagate"

\* create_gpio_controller: both except clauses around RealGPIOController()
\* return _create_mock_gpio().
OnRealFailure(kind) == "fallback"

Tried(drv, out) == [drv |-> drv, out |-> out]

InitFactory ==
    /\ driver = "none"
    /\ pin_states = EmptyTable
    /\ pwm_objects = {}
    /\ pwm_running = {}
    /\ hw = [p \in Pins |-> 0]
    /\ pwm_duty = EmptyTable
    /\ gpio_open = FALSE
    /\ phase = "unbuilt"
    /\ frame = [t \in Threads |-> IdleFrame]
    /\ last_cmd = "none"
    /\ BenchIdle
    /\ FacIdle
    /\ CamIdle

\* create_gpio_controller() is called in environment e.
FacCall(e) ==
    /\ fac_pc = "idle"
    /\ probe_env' = e
    /\ fac_pc' = "detect"
    /\ UNCHANGED <<fac_out, drvVars, ctlVars, benchVars, camVars, strVars>>

\* if _is_running_on_pi(): ... else: ...
FacDetect ==
    /\ fac_pc = "detect"
    /\ fac_out' = [fac_out EXCEPT !.on_pi = IsRunningOnPi(probe_env)]
    /\ fac_pc' = IF IsRunningOnPi(probe_env) THEN "real" ELSE "mock"
    /\ UNCHANGED <<probe_env, drvVars, ctlVars, benchVars, camVars, strVars>>

\* return RealGPIOController(): RPi.GPIO imports and setmode goes through.
FacRealOk ==
    /\ fac_pc = "real"
    /\ probe_env.imp
    /\ fac_out' = [fac_out EXCEPT !.tried = Append(@, Tried("real", "ok")),
                                  !.result = "real"]
    /\ fac_pc' = "done"
    /\ driver' = "real"
    /\ gpio_open' = TRUE
    /\ UNCHANGED <<probe_env, pin_states, pwm_objects, pwm_running, hw,
                   pwm_duty, ctlVars, benchVars, camVars, strVars>>

\* RealGPIOController() raises: ImportError when RPi.GPIO does not import,
\* another exception when the I/O subsystem refuses setmode.
FacRealFails(kind) ==
    /\ fac_pc = "real"
    /\ (kind = "ImportError") <=> ~probe_env.imp
    /\ fac_out' = [fac_out EXCEPT
                     !.tried = Append(@, Tried("real", kind)),
                     !.result = IF OnRealFailure(kind) = "fallback"
                                THEN @ ELSE "raised"]
    /\ fac_pc' = IF OnRealFailure(kind) = "fallback" THEN "mock" ELSE "done"
    /\ UNCHANGED <<probe_env, drvVars, ctlVars, benchVars, camVars, strVars>>

\* _create_mock_gpio(): return GPIOController()
FacMockOk ==
    /\ fac_pc = "mock"
    /\ fac_out' = [fac_out EXCEPT !.tried = Append(@, Tried("mock", "ok")),
                                  !.result = "mock"]
    /\ fac_pc' = "done"
    /\ driver' = "mock"
    /\ UNCHANGED <<probe_env, pin_states, pwm_objects, pwm_running, hw,
                   pwm_duty, gpio_open, ctlVars, benchVars, camVars, strVars>>

\* _create_mock_gpio(): importing gpio_mock raises ImportError, re-raised as
\* ImportError("No GPIO controller available"); any other exception is not
\* caught. Either way one exception leaves create_gpio_controller.
FacMockFails(kind) ==
    /\ fac_pc = "mock"
    /\ fac_out' = [fac_out EXCEPT !.tried = Append(@, Tried("mock", kind)),
                                  !.result = "raised"]
    /\ fac_pc' = "done"
    /\ UNCHANGED <<probe_env, drvVars, ctlVars, benchVars, camVars, strVars>>

NextFactory ==
    \/ \E e \in ProbeEnvs : FacCall(e)
    \/ FacDetect
    \/ FacRealOk
    \/ \E kind \in FailureKinds : FacRealFails(kind)
    \/ FacMockOk
    \/ \E kind \in FailureKinds : FacMockFails(kind)

SpecFactory == InitFactory /\ [][NextFactory]_vars

(********************* vision/camera_stream_simple.py **********************)

\* How a call of _try_opencv can go: cv2.VideoCapture raises; no index
\* opens; a camera.set raises; the test read returns no frame; the test read
\* raises; the test read returns a frame.
OpencvOutcomes ==
    {"ctor_raise", "not_opened", "set_raise", "read_empty", "read_raise",
     "ok"}

\* How a call of _try_basic_picamera2 can go: the import raises; Picamera2()
\* raises; create_preview_configuration, configure or start raises; the test
\* capture returns an empty array; the test capture raises; camera.stop()
\* raises after a failed test capture; the test capture returns a frame.
Picamera2Outcomes ==
    {"import_fail", "ctor_raise", "configure_raise", "capture_empty",
     "capture_raise", "stop_raise", "ok"}

\* How a call of _try_legacy_picamera can go: the import raises; PiCamera()
\* raises; setting resolution or framerate raises; nothing raises.
LegacyOutcomes == {"import_fail", "ctor_raise", "attr_raise", "ok"}

\* What one probe does to the streamer: ref is the new value of self.camera
\* ("keep" when it is not assigned), h the state of the candidate's handle,
\* capture what the test capture gave ("none" when none was made).
Effect(ref, h, capture) == [ref |-> ref, h |-> h, capture |-> capture]

\* _try_opencv
OpencvEffect(o) ==
    IF o = "ctor_raise" THEN Effect("keep", "absent", "none")
    ELSE IF o = "not_opened" THEN Effect("opencv", "released", "none")
    ELSE IF o = "set_raise" THEN Effect("opencv", "open", "none")
    ELSE IF o = "read_empty" THEN Effect("opencv", "released", "empty")
    ELSE IF o = "read_raise" THEN Effect("opencv", "open", "raised")
    ELSE Effect("opencv", "open", "frame")

\* _try_basic_picamera2
Picamera2Effect(o) ==
    IF o \in {"import_fail", "ctor_raise"} THEN Effect("keep", "absent", "none")
    ELSE IF o = "configure_raise" THEN Effect("picamera2", "open", "none")
    ELSE IF o = "capture_empty" THEN Effect("None", "released", "empty")
    ELSE IF o = "capture_raise" THEN Effect("None", "released", "raised")
    ELSE IF o = "stop_raise" THEN Effect("picamera2", "open", "empty")
    ELSE Effect("picamera2", "open", "frame")

\* _try_legacy_picamera: the lines under "# Test capture" only sleep.
LegacyEffect(o) ==
    IF o \in {"import_fail", "ctor_raise"} THEN Effect("keep", "absent", "none")
    ELSE Effect("legacy_picamera", "open", "none")

\* A faulty variant of PcAfter: the later candidates are tried even when one
\* was accepted.
PcAfterKeepsTrying(c, accepted) ==
    IF c = "opencv" THEN "picamera2"
    ELSE IF c = "picamera2" THEN "legacy_picamera"
    ELSE IF accepted THEN "done" ELSE "none_left"

\* _setup_camera: return when a candidate's probe returned True, else go on
\* to the next one.
PcAfter(c, accepted) ==
    IF accepted THEN "done"
    ELSE IF c = "opencv" THEN "picamera2"
    ELSE IF c = "picamera2" THEN "legacy_picamera"
    ELSE "none_left"

Probed(c, o, capture) == [cand |-> c, out |-> o, capture |-> capture]

\* One probe method runs to its return: candidate c, outcome o, effect e.
Probe(c, o, e) ==
    /\ camera' = IF e.ref = "keep" THEN camera ELSE e.ref
    /\ handle' = [handle EXCEPT ![c] = e.h]
    /\ camera_type' = IF o = "ok" THEN c ELSE camera_type
    /\ probe_log' = Append(probe_log, Probed(c, o, e.capture))
    /\ cam_pc' = PcAfter(c, o = "ok")
    /\ UNCHANGED <<drvVars, ctlVars, benchVars, facVars, strVars>>

InitCamera ==
    /\ driver = "none"
    /\ pin_states = EmptyTable
    /\ pwm_objects = {}
    /\ pwm_running = {}
    /\ hw = [p \in Pins |-> 0]
    /\ pwm_duty = EmptyTable
    /\ gpio_open = FALSE
    /\ phase = "unbuilt"
    /\ frame = [t \in Threads |-> IdleFrame]
    /\ last_cmd = "none"
    /\ BenchIdle
    /\ FacIdle
    /\ CamIdle

\* SimpleCameraStreamer.__init__ up to the call of _setup_camera().
CamConstruct ==
    /\ cam_pc = "idle"
    /\ cam_pc' = Candidates[1]
    /\ camera' = "None"
    /\ camera_type' = "None"
    /\ UNCHANGED <<handle, probe_log, drvVars, ctlVars, benchVars, facVars,
                   strVars>>

\* Method 1 of _setup_camera
TryOpencv(o) ==
    /\ cam_pc = "opencv"
    /\ Probe("opencv", o, OpencvEffect(o))

\* Method 2 of _setup_camera
TryBasicPicamera2(o) ==
    /\ cam_pc = "picamera2"
    /\ Probe("picamera2", o, Picamera2Effect(o))

\* Method 3 of _setup_camera
TryLegacyPicamera(o) ==
    /\ cam_pc = "legacy_picamera"
    /\ Probe("legacy_picamera", o, LegacyEffect(o))

\* _setup_camera: no candidate returned True.
CamNoneAvailable ==
    /\ cam_pc = "none_left"
    /\ camera_type' = "None"
    /\ cam_pc' = "done"
    /\ UNCHANGED <<camera, handle, probe_log, drvVars, ctlVars, benchVars,
                   facVars, strVars>>

NextCamera ==
    \/ CamConstruct
    \/ \E o \in OpencvOutcomes : TryOpencv(o)
    \/ \E o \in Picamera2Outcomes : TryBasicPicamera2(o)
    \/ \E o \in LegacyOutcomes : TryLegacyPicamera(o)
    \/ CamNoneAvailable

SpecCamera == InitCamera /\ [][NextCamera]_vars

(*************** SimpleCameraStream: calls on the object *******************)

\* The fields of the stream object that its methods read or assign.
Obj ==
    [camera |-> camera, camera_type |-> camera_type,
     is_streaming |-> is_streaming, handle |-> handle]

SetObj(s) ==
    /\ camera' = s.camera
    /\ camera_type' = s.camera_type
    /\ is_streaming' = s.is_streaming
    /\ handle' = s.handle

\* get_frame: if self.camera is None or self.camera_type is None
NoBackend(s) == s.camera = "None" \/ s.camera_type = "None"

\* How the capture call of get_frame (with the colour conversion after it)
\* can go on the active backend: a frame, an empty result, an exception.
\* PiCamera.capture fills the caller's array: it has no empty result.  A
\* released VideoCapture reads (False, None); the other two raise once
\* closed.
CaptureOutcomes(s) ==
    IF NoBackend(s) THEN {"empty"}
    ELSE IF s.handle[s.camera] = "open"
    THEN (IF s.camera_type = "legacy_picamera" THEN {"frame", "raise"}
          ELSE {"frame", "empty", "raise"})
    ELSE (IF s.camera_type = "opencv" THEN {"empty", "raise"} ELSE {"raise"})

\* A faulty variant of CaptureCalls: only self.camera is looked at.
CaptureCallsCameraOnly(s) == IF s.camera = "None" THEN 0 ELSE 1

\* The number of calls get_frame makes on the capture handle.
CaptureCalls(s) == IF NoBackend(s) THEN 0 ELSE 1

\* A faulty variant of Absorb: an exception of the capture call propagates.
AbsorbNothing(o) ==
    IF o = "frame" THEN "frame" ELSE IF o = "empty" THEN "none" ELSE "raised"

\* get_frame: what it returns for outcome o of its capture call; the except
\* clause logs and returns None.
Absorb(o) == IF o = "frame" THEN "frame" ELSE "none"

\* get_frame(): the object afterwards, the value returned, the calls made on
\* the handle.
get_frame(s, o) ==
    IF CaptureCalls(s) = 0
    THEN [obj |-> s, ret |-> "none", calls |-> 0]
    ELSE [obj |-> s, ret |-> Absorb(o), calls |-> CaptureCalls(s)]

\* A faulty variant of start_streaming: the flag is flipped.
start_streaming_flips(s) == [s EXCEPT !.is_streaming = ~@]

start_streaming(s) == [s EXCEPT !.is_streaming = TRUE]

stop_streaming(s) == [s EXCEPT !.is_streaming = FALSE]

\* A faulty variant of cleanup: the backend tag is cleared with the handle.
cleanup_clears_tag(s, o) ==
    IF s.camera = "None" \/ o = "raise" THEN s
    ELSE [s EXCEPT !.handle[s.camera] = "released", !.camera_type = "None"]

\* cleanup(): close(), release() or stop() on the handle self.camera
\* references, if any; an exception of that call is logged, not raised.
cleanup(s, o) ==
    IF s.camera = "None" \/ o = "raise" THEN s
    ELSE [s EXCEPT !.handle[s.camera] = "released"]

StreamCall(op, ret, calls, raised) ==
    [op |-> op, ret |-> ret, calls |-> calls, raised |-> raised,
     was_streaming |-> is_streaming, was_type |-> camera_type]

\* camera_stream.get_frame() is called, its capture call going as o.
CallGetFrame(o) ==
    /\ cam_pc = "done"
    /\ o \in CaptureOutcomes(Obj)
    /\ LET r == get_frame(Obj, o)
       IN  /\ SetObj(r.obj)
           /\ stream_call' =
                  StreamCall("get_frame", r.ret, r.calls, r.ret = "raised")
    /\ UNCHANGED <<cam_pc, probe_log, gen, viewers, drvVars, ctlVars,
                   benchVars, facVars>>

CallStartStreaming ==
    /\ cam_pc = "done"
    /\ SetObj(start_streaming(Obj))
    /\ stream_call' = StreamCall("start_streaming", "none", 0, FALSE)
    /\ UNCHANGED <<cam_pc, probe_log, gen, viewers, drvVars, ctlVars,
                   benchVars, facVars>>

CallStopStreaming ==
    /\ cam_pc = "done"
    /\ SetObj(stop_streaming(Obj))
    /\ stream_call' = StreamCall("stop_streaming", "none", 0, FALSE)
    /\ UNCHANGED <<cam_pc, probe_log, gen, viewers, drvVars, ctlVars,
                   benchVars, facVars>>

\* camera_stream.cleanup() is called, the call on the handle going as o.
CallStreamCleanup(o) ==
    /\ cam_pc = "done"
    /\ SetObj(cleanup(Obj, o))
    /\ stream_call' = StreamCall("cleanup", "none", 0, FALSE)
    /\ UNCHANGED <<cam_pc, probe_log, gen, viewers, drvVars, ctlVars,
                   benchVars, facVars>>

\* The object is constructed, whichever way the probes go, and then used
\* through its methods.
NextStreamObject ==
    \/ NextCamera
    \/ \E o \in {"frame", "empty", "raise"} : CallGetFrame(o)
    \/ CallStartStreaming
    \/ CallStopStreaming
    \/ \E o \in {"ok", "raise"} : CallStreamCleanup(o)

SpecStreamObject == InitCamera /\ [][NextStreamObject]_vars

(**************** SimpleCameraStream.generate_frames ***********************)

\* if consecutive_errors > 5
ErrorThreshold == 5

\* main: SimpleCameraStream(resolution=(640, 480), framerate=30)
Framerate == 30

\* time.sleep(1.0 / self.framerate), in milliseconds
FramePeriodMs == 1000 \div Framerate

\* time.sleep(0.5)
DegradedDelayMs == 500

\* time.sleep(1.0)
ErrorDelayMs == 1000

\* An iteration is started only below this many consecutive errors.
MaxErrors == 6

\* Faulty variants of NormalDelay: the error count is ignored; the slower
\* delay starts at the threshold itself.
NormalDelayNeverSlower(errors) == FramePeriodMs

NormalDelayFromThreshold(errors) ==
    IF errors >= ErrorThreshold THEN DegradedDelayMs ELSE FramePeriodMs

\* The delay at the end of the try body ("Adaptive delay based on errors").
NormalDelay(errors) ==
    IF errors > ErrorThreshold THEN DegradedDelayMs ELSE FramePeriodMs

\* A faulty variant of BranchAfter: nothing is sent when there is no frame.
BranchAfterDrops(ret) == IF ret = "frame" THEN "encode" ELSE "head"

\* if frame is not None: ... else: ...
BranchAfter(ret) == IF ret = "frame" THEN "encode" ELSE "placeholder"

\* The outcomes of the probes under which the streaming loop is explored:
\* each candidate either is accepted or fails in one way (opencv by an
\* exception that leaves its handle assigned).
StreamBuilds ==
    [opencv |-> {"set_raise", "ok"}, picamera2 |-> {"capture_raise", "ok"},
     legacy_picamera |-> {"import_fail", "ok"}]

Build ==
    \/ CamConstruct
    \/ \E o \in StreamBuilds.opencv : TryOpencv(o)
    \/ \E o \in StreamBuilds.picamera2 : TryBasicPicamera2(o)
    \/ \E o \in StreamBuilds.legacy_picamera : TryLegacyPicamera(o)
    \/ CamNoneAvailable

\* The loop is bounded: no iteration starts once a counter reached MaxErrors.
CanIterate == gen.consecutive_errors < MaxErrors /\ gen.failed < MaxErrors

GenUnchanged ==
    UNCHANGED <<camVars, is_streaming, stream_call, viewers, drvVars,
                ctlVars, benchVars, facVars>>

\* video_feed: camera_stream.generate_frames() makes a generator; its body
\* starts with frame_count = 0, consecutive_errors = 0.
GenCreate ==
    /\ cam_pc = "done"
    /\ gen.pc \in {"absent", "finished", "escaped"}
    /\ gen' = [NoGen EXCEPT !.pc = "head"]
    /\ GenUnchanged

\* while self.is_streaming: the loop is entered again, or the generator ends.
GenCheck ==
    /\ gen.pc = "head"
    /\ is_streaming => CanIterate
    /\ gen' = IF is_streaming
              THEN [gen EXCEPT !.pc = "capture", !.raised = FALSE,
                               !.chunks = 0]
              ELSE [gen EXCEPT !.pc = "finished"]
    /\ GenUnchanged

\* frame = self.get_frame(), then consecutive_errors = 0 or += 1.
GenGetFrame(o) ==
    /\ gen.pc = "capture"
    /\ o \in CaptureOutcomes(Obj)
    /\ LET r == get_frame(Obj, o)
       IN  /\ SetObj(r.obj)
           /\ gen' = [gen EXCEPT
                        !.pc = BranchAfter(r.ret),
                        !.consecutive_errors =
                            IF r.ret = "frame" THEN 0 ELSE @ + 1]
    /\ UNCHANGED <<cam_pc, probe_log, stream_call, viewers, drvVars,
                   ctlVars, benchVars, facVars>>

\* except Exception as e: consecutive_errors += 1
Caught(g) ==
    [g EXCEPT !.pc = "except", !.raised = TRUE,
              !.consecutive_errors = @ + 1]

\* A faulty variant of Yielded: a stop ends the iteration in flight before
\* its chunk is sent.
YieldedUnlessStopped(g, kind, pc) ==
    IF is_streaming
    THEN [g EXCEPT !.pc = pc, !.chunk = kind, !.chunks = @ + 1]
    ELSE [g EXCEPT !.pc = "finished"]

Yielded(g, kind, pc) ==
    [g EXCEPT !.pc = pc, !.chunk = kind, !.chunks = @ + 1]

\* cv2.imencode of the captured frame, buffer.tobytes(), yield.
GenEncode(o) ==
    /\ gen.pc = "encode"
    /\ gen' = IF o = "ok" THEN Yielded(gen, "frame", "yielded")
              ELSE Caught(gen)
    /\ GenUnchanged

\* np.zeros, cv2.putText, cv2.imencode of the blank frame, yield.
GenPlaceholder(o) ==
    /\ gen.pc = "placeholder"
    /\ gen' = IF o = "ok" THEN Yielded(gen, "placeholder", "yielded")
              ELSE Caught(gen)
    /\ GenUnchanged

\* The except clause: np.zeros, cv2.putText, cv2.imencode of the error
\* frame, yield.  An exception raised here leaves the generator.
GenErrorFrame(o) ==
    /\ gen.pc = "except"
    /\ gen' = IF o = "ok" THEN Yielded(gen, "error", "yielded_error")
              ELSE [gen EXCEPT !.pc = "escaped"]
    /\ GenUnchanged

\* The consumer asks for the next chunk: the generator resumes after its
\* yield, sleeps, and is back at the loop test.
GenResume ==
    /\ gen.pc \in {"yielded", "yielded_error"}
    /\ gen' = [gen EXCEPT
                 !.pc = "head",
                 !.delay = IF gen.pc = "yielded"
                           THEN NormalDelay(gen.consecutive_errors)
                           ELSE ErrorDelayMs,
                 !.failed = IF gen.chunk = "frame" THEN 0 ELSE @ + 1,
                 !.clean = IF gen.chunk = "frame" THEN TRUE
                           ELSE @ /\ ~gen.raised]
    /\ GenUnchanged

Outcomes == {"ok", "raise"}

NextStream ==
    \/ Build
    \/ CallStartStreaming
    \/ CallStopStreaming
    \/ \E o \in Outcomes : CallStreamCleanup(o)
    \/ GenCreate
    \/ GenCheck
    \/ \E o \in {"frame", "empty", "raise"} : GenGetFrame(o)
    \/ \E o \in Outcomes : GenEncode(o)
    \/ \E o \in Outcomes : GenPlaceholder(o)
    \/ \E o \in Outcomes : GenErrorFrame(o)
    \/ GenResume

SpecStream == InitCamera /\ [][NextStream]_vars

\* The steps of the generator when the consumer keeps asking and the calls
\* the loop makes return normally.
Pull ==
    \/ GenCheck
    \/ \E o \in {"frame", "empty", "raise"} : GenGetFrame(o)
    \/ GenEncode("ok")
    \/ GenPlaceholder("ok")
    \/ GenResume

NextStreamLive ==
    \/ Build
    \/ CallStartStreaming
    \/ CallStopStreaming
    \/ GenCreate
    \/ Pull

SpecStreamLive == InitCamera /\ [][NextStreamLive]_vars /\ WF_vars(Pull)

(************* several viewers of one stream object ***********************)

\* The threaded server runs every video_feed request on a thread of its own;
\* each request makes its own generator over the one stream object.  A
\* viewer's get_frame is taken in two steps, the capture call on the handle
\* being entered and returning, since other threads run in between.

ViewerUnchanged ==
    UNCHANGED <<camVars, is_streaming, gen, stream_call, drvVars, ctlVars,
                benchVars, facVars>>

ViewerAt(t, pc) == viewers' = [viewers EXCEPT ![t].pc = pc]

\* video_feed: Response(camera_stream.generate_frames(), ...)
ViewerRequest(t) ==
    /\ cam_pc = "done"
    /\ viewers[t].pc \in {"absent", "finished"}
    /\ ViewerAt(t, "head")
    /\ ViewerUnchanged

\* while self.is_streaming
ViewerCheck(t) ==
    /\ viewers[t].pc = "head"
    /\ ViewerAt(t, IF is_streaming THEN "capture" ELSE "finished")
    /\ ViewerUnchanged

\* get_frame up to its capture call: the call on the handle is entered, or
\* None is returned at once when there is no backend.  Nothing is acquired
\* or waited for before the call.
ViewerEnter(t) ==
    /\ viewers[t].pc = "capture"
    /\ ViewerAt(t, IF CaptureCalls(Obj) = 0 THEN "placeholder" ELSE "reading")
    /\ ViewerUnchanged

\* The capture call returns with outcome o; get_frame returns the frame or
\* None.
ViewerReturn(t, o) ==
    /\ viewers[t].pc = "reading"
    /\ o \in CaptureOutcomes(Obj)
    /\ ViewerAt(t, BranchAfter(get_frame(Obj, o).ret))
    /\ ViewerUnchanged

\* The rest of the iteration: encode or placeholder, yield, sleep.
ViewerEmit(t) ==
    /\ viewers[t].pc \in {"encode", "placeholder"}
    /\ viewers' = [viewers EXCEPT
                     ![t] = [pc |-> "head",
                             chunk |-> IF @.pc = "encode" THEN "frame"
                                       ELSE "placeholder"]]
    /\ ViewerUnchanged

NextViewers ==
    \/ Build
    \/ CallStartStreaming
    \/ CallStopStreaming
    \/ \E t \in Threads : ViewerRequest(t)
    \/ \E t \in Threads : ViewerCheck(t)
    \/ \E t \in Threads : ViewerEnter(t)
    \/ \E t \in Threads : \E o \in {"frame", "empty", "raise"} :
           ViewerReturn(t, o)
    \/ \E t \in Threads : ViewerEmit(t)

SpecViewers == InitCamera /\ [][NextViewers]_vars

(******************************** claims ***********************************)

\* The call of the serialized caller.
F == frame[MainThread]

InLog(f, i) == \E k \in 1..Len(f.log) : f.log[k] = i

HasFailure(f) == \E k \in 1..Len(f.log) : f.log[k].k = "fail"

\* Entry k of a log is instruction i, carried out or raised.
Attempt(e, i) == e = i \/ e = Failed(i)

\* C1: for each motor side the forward pin and the backward pin are never
\* both high in the driver's pin table, in any reachable state under
\* serialized use, the states between the two writes of
\* _set_motor_direction included.
\* (Stated for the runs in which no directional operation has raised.)
C1_NeverBothHigh ==
    last_cmd # "partial"
        => \A m \in Sides :
               ~(Get(pin_states, m.forward) = 1 /\ Get(pin_states, m.backward) = 1)

\* C2: after any motor operation, whatever speed it was called with and
\* whichever driver is in use, both enable lines record a value in [0,100],
\* and the operation did not raise because of the speed.
C2_EnableAlwaysClamped ==
    (F.op \in MotorOps /\ F.status = "ok")
        => \A p \in EnablePins :
               Get(pin_states, p) >= 0 /\ Get(pin_states, p) <= PwmMax

\* C3: for every speed in [0,1] and every directional operation, the value
\* written to the left enable line and to the right enable line is the same
\* integer floor(speed * 100).
C3_EnableIsFloorPercent ==
    (F.op \in DirectionalOps /\ InContract(F.speed))
        => /\ \A k \in 1..Len(F.log) :
                  F.log[k].pin \in EnablePins
                      => F.log[k].val = FloorDiv(F.speed * 100, SpeedScale)
           /\ F.status = "ok"
                  => \A p \in EnablePins :
                         /\ \E k \in 1..Len(F.log) :
                                F.log[k].k = "set" /\ F.log[k].pin = p
                         /\ Get(pin_states, p) = FloorDiv(F.speed * 100, SpeedScale)

\* move_forward(0.995) returned: both enable lines hold 99, not 100.
C3_Witness ==
    /\ F.op = "move_forward" /\ F.status = "ok" /\ F.speed = 995
    /\ Get(pin_states, 22) = 99 /\ Get(pin_states, 25) = 99

\* The direction pins each directional operation leaves, as the claims state
\* them: <<left forward, left backward, right forward, right backward>>.
Pattern(op) ==
    IF op \in {"move_forward", "move_forward_in_seconds"} THEN <<1, 0, 1, 0>>
    ELSE IF op = "move_backward" THEN <<0, 1, 0, 1>>
    ELSE IF op = "turn_left" THEN <<0, 1, 1, 0>>
    ELSE <<1, 0, 0, 1>>

DirPinsOf(ps) == <<Get(ps, 17), Get(ps, 18), Get(ps, 23), Get(ps, 24)>>

\* C4: stop() sets both enable lines to 0 and leaves the four direction pins
\* as they were before the call; after a completed directional command they
\* are the values that command wrote.
C4_StopKeepsDirection ==
    (F.op = "stop" /\ F.status = "ok")
        => /\ \A p \in EnablePins : Get(pin_states, p) = 0
           /\ DirPinsOf(pin_states) = DirPinsOf(F.snap)
           /\ last_cmd \in DirectionalOps
                  => DirPinsOf(pin_states) = Pattern(last_cmd)

\* stop() returned after turn_left: left backward, right forward, enables 0.
C4_Witness ==
    /\ F.op = "stop" /\ F.status = "ok" /\ last_cmd = "turn_left"
    /\ DirPinsOf(pin_states) = <<0, 1, 1, 0>>
    /\ Get(pin_states, 22) = 0 /\ Get(pin_states, 25) = 0
    /\ Get(F.snap, 22) > 0

\* C5: after each completed directional operation, whatever the pins held
\* before, the direction pins hold the operation's pattern.
C5_DirectionPattern ==
    (F.op \in DirectionalOps /\ F.status = "ok")
        => DirPinsOf(pin_states) = Pattern(F.op)

\* turn_right returned, entered with all four direction pins the other way.
C5_Witness ==
    /\ F.op = "turn_right" /\ F.status = "ok"
    /\ DirPinsOf(F.snap) = <<0, 1, 1, 0>>
    /\ DirPinsOf(pin_states) = <<1, 0, 0, 1>>

\* C6: move_forward_in_seconds makes the driver calls of move_forward(speed),
\* then sleeps with both enable lines at floor(speed * 100) (speed in [0,1]),
\* then makes the calls of stop(); when it returns both enable lines read 0
\* and both motors' direction pins read forward.
C6_TimedForwardOrder ==
    F.op = "move_forward_in_seconds"
        => LET expected == MoveProg("move_forward", F.speed)
                             \o << Sleep, Set(22, 0), Set(25, 0) >>
           IN  /\ Len(F.log) <= Len(expected)
               /\ \A k \in 1..Len(F.log) : Attempt(F.log[k], expected[k])
               /\ (F.status = "running" /\ Head(F.prog) = Sleep
                     /\ InContract(F.speed))
                      => \A p \in EnablePins :
                             Get(pin_states, p)
                                 = FloorDiv(F.speed * 100, SpeedScale)
               /\ F.status = "ok"
                      => /\ F.log = expected
                         /\ \A p \in EnablePins : Get(pin_states, p) = 0
                         /\ DirPinsOf(pin_states) = <<1, 0, 1, 0>>

\* move_forward_in_seconds(0.5, _) returned, entered while moving backward.
C6_Witness ==
    /\ F.op = "move_forward_in_seconds" /\ F.status = "ok" /\ F.speed = 500
    /\ InLog(F, Sleep) /\ InLog(F, Set(22, 50))
    /\ DirPinsOf(F.snap) = <<0, 1, 0, 1>>
    /\ Get(pin_states, 22) = 0 /\ Get(pin_states, 25) = 0

\* C7: while move_forward_in_seconds is suspended in its sleep, no other
\* motor operation on the same controller is executing, also when the
\* operations come from the threaded request handlers.
C7_NoOpDuringTimedSleep ==
    \A t \in Threads :
        (frame[t].op = "move_forward_in_seconds"
           /\ frame[t].status = "running" /\ Head(frame[t].prog) = Sleep)
            => \A u \in Threads \ {t} : frame[u].status # "running"

\* The setup_pin calls of the constructor, as the claim states them.
C8_Setups ==
    << Setup(17, "OUT"), Setup(18, "OUT"), Setup(22, "PWM"),
       Setup(23, "OUT"), Setup(24, "OUT"), Setup(25, "PWM") >>

\* C8: the constructor calls setup_pin once per configured pin (direction
\* pins as digital output, enable pins as PWM), after which the simulated
\* driver reads 0 on all six; a setup_pin that raises ends the constructor
\* with that error: no retry and no further setup_pin call.
C8_ConstructionSetup ==
    /\ F.op = "init"
           => /\ Len(F.log) <= Len(C8_Setups)
              /\ \A k \in 1..Len(F.log) : Attempt(F.log[k], C8_Setups[k])
              /\ \A k \in 1..Len(F.log) :
                     F.log[k].k = "fail"
                         => k = Len(F.log) /\ F.status = "raised"
              /\ F.status = "raised" => HasFailure(F) /\ phase = "failed"
              /\ F.status = "ok"
                     => /\ F.log = C8_Setups
                        /\ phase = "ready"
                        /\ DOMAIN pin_states = Pins
                        /\ driver = "mock"
                               => \A p \in Pins : MockGetPinState(Drv, p) = 0
    /\ phase = "failed" => \A t \in Threads : frame[t].status # "running"
    /\ phase = "constructing" => F.op = "init" /\ F.status = "running"

\* The third setup_pin (left enable, PWM) raised: the constructor raised
\* after three calls, with only pins 17 and 18 set up.
C8_Witness ==
    /\ F.op = "init" /\ F.status = "raised" /\ Len(F.log) = 3
    /\ F.log[3] = Failed(Setup(22, "PWM"))
    /\ DOMAIN pin_states = {17, 18}

\* C9: MotorController.cleanup() performs stop(), then the grace wait, then
\* the driver's cleanup(), in that order, and never raises to its caller,
\* whichever step raises.
C9_CleanupOrderNoRaise ==
    F.op = "cleanup"
        => LET expected == << Set(22, 0), Set(25, 0), Sleep, DrvCleanup >>
           IN  /\ F.status \in {"running", "ok"}
               /\ \A k \in 1..Len(F.log) :
                      k <= Len(expected) => Attempt(F.log[k], expected[k])
               /\ \A k \in 1..Len(F.log) :
                      k > Len(expected)
                          => F.log[k].k \in {"pwm_stop", "gpio_cleanup",
                                             "clear_states", "clear_pwm", "fail"}
               /\ (F.status = "ok" /\ ~HasFailure(F))
                      => /\ Len(F.log) > Len(expected)
                         /\ pin_states = EmptyTable
               /\ F.status = "ok" => phase = "closed"

\* cleanup() returned normally although its stop() raised.
C9_Witness ==
    /\ F.op = "cleanup" /\ F.status = "ok"
    /\ F.log = << Set(22, 0), Failed(Set(25, 0)) >>

\* C10: teardown runs to completion whatever fails: when cleanup() has
\* returned the driver's cleanup() was invoked, and with the hardware driver
\* every PWM channel is stopped, the I/O subsystem is released and the
\* pin_states and pwm_objects tables are empty.
C10_TeardownCompletes ==
    (F.op = "cleanup" /\ F.status = "ok")
        => /\ InLog(F, DrvCleanup)
           /\ driver = "real"
                  => /\ pwm_running = {}
                     /\ ~gpio_open
                     /\ pin_states = EmptyTable
                     /\ pwm_objects = {}

\* What the history says pin p holds: the last value written since the pin
\* was last set up (or the driver cleaned up), 0 if there was none.
LastWritten(p) == IF p \in DOMAIN written THEN written[p] ELSE 0

\* C11: simulated driver: after any sequence of setup_pin, set_pin,
\* get_pin_state and cleanup, get_pin_state(p) returns exactly the value of
\* the most recent set_pin(p, v) since the last setup_pin(p, _) or cleanup(),
\* unclamped, and 0 if there was none; no operation fails.
C11_MockReadYourWrites ==
    driver = "mock"
        => /\ \A p \in BenchPins : MockGetPinState(Drv, p) = LastWritten(p)
           /\ last_call.op = "get_pin_state"
                  => last_call.ret = LastWritten(last_call.pin)
           /\ ~last_call.raised

\* get_pin_state(17) returned 7 while pin 22 holds 150, unclamped.
C11_Witness ==
    /\ driver = "mock"
    /\ last_call.op = "get_pin_state" /\ last_call.pin = 17 /\ last_call.ret = 7
    /\ 22 \in DOMAIN written /\ written[22] = 150
    /\ MockGetPinState(Drv, 22) = 150

\* C12: setup_pin with a mode that is neither digital output nor PWM output
\* is rejected with an error by either driver; it never returns normally.
C12_InvalidModeRejected ==
    (last_call.op = "setup_pin" /\ last_call.mode \notin ValidModes)
        => last_call.raised

\* C13: hardware driver: after any sequence of setup_pin and
\* set_pin calls, every pin with a PWM channel records a value in [0,100]
\* equal to the duty cycle last applied to the channel, and every plain
\* digital pin records 1 if the last written value was > 0 and 0 otherwise.
C13_RecordedMatchesLine ==
    driver = "real"
        => \A p \in DOMAIN pin_states :
               IF p \in pwm_objects
               THEN /\ pin_states[p] \in 0..100
                    /\ pin_states[p] = pwm_duty[p]
               ELSE pin_states[p] = (IF LastWritten(p) > 0 THEN 1 ELSE 0)

\* C15: hardware driver: a live read that fails inside get_pin_state is
\* surfaced to the caller as an error, not reported as the value 0.
C15_ReadFailureSurfaced ==
    (last_call.op = "get_pin_state" /\ last_call.hwfail) => last_call.raised

\* The instructions of a log that were carried out, in order.
Succeeded(log) == SelectSeq(log, LAMBDA e : e.k # "fail")

\* The pin table that the writes carried out so far by the call of frame f
\* leave, starting from the table the call found.
TableAfter(f) == RunAll([Drv EXCEPT !.ps = f.snap], Succeeded(f.log)).ps

\* C14: a failed hardware write is never silently dropped: when set_pin
\* raises inside move_forward, move_backward, turn_left, turn_right, stop or
\* move_forward_in_seconds, the operation ends by raising to its caller, and
\* the pin whose write failed still records what it recorded before the write.
C14_FailedWriteRaised ==
    (F.op \in MotorOps /\ HasFailure(F))
        => /\ F.status = "raised"
           /\ F.prog = << >>
           /\ LET e == F.log[Len(F.log)]
              IN  /\ e.k = "fail"
                  /\ Get(pin_states, e.pin) = Get(TableAfter(F), e.pin)

\* move_forward(0.5) after a completed move_backward: set_pin(17, 1) went
\* through, set_pin(18, 0) raised; pin 18 still records 1.
C14_Witness ==
    /\ driver = "real"
    /\ F.op = "move_forward" /\ F.status = "raised"
    /\ F.log = <<Set(17, 1), Failed(Set(18, 0))>>
    /\ pin_states[17] = 1 /\ pin_states[18] = 1

\* At least one of the four checks is positive.
AnyCheckPositive(e) == e.dt = "pos" \/ e.cpu = "pos" \/ e.env \/ e.imp

\* C16: the factory takes the real-hardware branch exactly when at least one
\* of the four checks is positive; a readable but negative descriptor does
\* not end the detection.
C16_RealBranchIffAnyPositive ==
    fac_pc \in {"real", "mock", "done"}
        => (fac_out.on_pi <=> AnyCheckPositive(probe_env))

FailedConstruction(k) ==
    k \in 1..Len(fac_out.tried) /\ fac_out.tried[k].out # "ok"

Accepted(k) == k \in 1..Len(probe_log) /\ probe_log[k].out = "ok"

\* C18: the probe chain tries the candidates in the fixed order opencv,
\* picamera2, legacy picamera and stops at the first one accepted; the
\* active tag and the retained handle are that candidate's. (With opencv not
\* opening and picamera2 failing its test capture, they are the legacy
\* candidate's.)
C18_ProbeOrder ==
    /\ Len(probe_log) <= Len(Candidates)
    /\ \A k \in 1..Len(probe_log) :
           /\ probe_log[k].cand = Candidates[k]
           /\ Accepted(k) => k = Len(probe_log)
    /\ cam_pc = "done"
           => IF Accepted(Len(probe_log))
              THEN /\ camera_type = probe_log[Len(probe_log)].cand
                   /\ camera = camera_type
                   /\ handle[camera] = "open"
              ELSE /\ camera_type = "None"
                   /\ Len(probe_log) = Len(Candidates)

\* opencv opens no device, picamera2 opens and fails its test capture, the
\* legacy candidate is accepted.
C18_Witness ==
    /\ cam_pc = "done"
    /\ probe_log = <<Probed("opencv", "not_opened", "none"),
                     Probed("picamera2", "capture_raise", "raised"),
                     Probed("legacy_picamera", "ok", "none")>>
    /\ camera = "legacy_picamera"
    /\ camera_type = "legacy_picamera"
    /\ handle["legacy_picamera"] = "open"

\* C19: a backend is recorded as active only if a test capture was made on
\* it and gave a non-empty frame, the legacy backend included.
C19_ActiveOnlyAfterTestCapture ==
    camera_type # "None"
        => \E k \in 1..Len(probe_log) :
               /\ probe_log[k].cand = camera_type
               /\ probe_log[k].capture = "frame"

\* C20: a candidate that was tried and rejected holds no open handle and is
\* no longer referenced by the streamer; so after probing the only open
\* handle is the accepted candidate's, or there is none.
C20_NoLeakAcrossProbes ==
    \A k \in 1..Len(probe_log) :
        ~Accepted(k) => /\ handle[probe_log[k].cand] # "open"
                        /\ camera # probe_log[k].cand

AllRejected ==
    /\ cam_pc = "done"
    /\ \A k \in 1..Len(probe_log) : ~Accepted(k)

\* C21: if every probe candidate fails, the active backend is recorded as
\* none, and every get_frame() afterwards returns no frame without a call on
\* any capture handle, whichever way the candidates failed, a handle object
\* left assigned to self.camera included.
C21_NoBackendNoIO ==
    AllRejected
        => /\ camera_type = "None"
           /\ \A o \in CaptureOutcomes(Obj) :
                  /\ get_frame(Obj, o).ret = "none"
                  /\ get_frame(Obj, o).calls = 0
           /\ stream_call.op = "get_frame"
                  => stream_call.ret = "none" /\ stream_call.calls = 0

\* Every candidate failed, _try_opencv by an exception that left its open
\* handle assigned; get_frame() returned no frame and made no call.
C21_Witness ==
    /\ AllRejected
    /\ camera = "opencv" /\ handle["opencv"] = "open"
    /\ stream_call.op = "get_frame"
    /\ stream_call.ret = "none" /\ stream_call.calls = 0

\* C22: get_frame() never raises: for every active backend and every outcome
\* of the capture call it returns a frame or no frame, makes at most one
\* capture call, and leaves is_streaming and the backend tag as they were.
C22_GetFrameNeverRaises ==
    /\ cam_pc = "done"
           => \A o \in CaptureOutcomes(Obj) :
                  LET r == get_frame(Obj, o)
                  IN  /\ r.ret \in {"frame", "none"}
                      /\ r.calls \in {0, 1}
                      /\ r.obj = Obj
    /\ stream_call.op = "get_frame"
           => /\ ~stream_call.raised
              /\ stream_call.ret \in {"frame", "none"}
              /\ stream_call.calls \in {0, 1}
              /\ is_streaming = stream_call.was_streaming
              /\ camera_type = stream_call.was_type

\* The capture call of the picamera2 backend raised while streaming was on;
\* get_frame() returned no frame.
C22_Witness ==
    /\ camera_type = "picamera2"
    /\ is_streaming
    /\ stream_call.op = "get_frame"
    /\ stream_call.calls = 1 /\ stream_call.ret = "none"
    /\ "raise" \in CaptureOutcomes(Obj)

\* C24: is_streaming is false after construction; start_streaming() sets it
\* true and stop_streaming() sets it false; each is idempotent, and neither
\* changes another field of the stream object.
C24_StartStopIdempotent ==
    /\ (cam_pc = "done" /\ stream_call.op = "none") => ~is_streaming
    /\ cam_pc = "done"
           => /\ start_streaming(Obj) = [Obj EXCEPT !.is_streaming = TRUE]
              /\ stop_streaming(Obj) = [Obj EXCEPT !.is_streaming = FALSE]
              /\ start_streaming(start_streaming(Obj)) = start_streaming(Obj)
              /\ stop_streaming(stop_streaming(Obj)) = stop_streaming(Obj)
    /\ stream_call.op = "start_streaming"
           => is_streaming /\ camera_type = stream_call.was_type
    /\ stream_call.op = "stop_streaming"
           => ~is_streaming /\ camera_type = stream_call.was_type

\* start_streaming() was called while streaming was already on.
C24_Witness ==
    /\ stream_call.op = "start_streaming"
    /\ stream_call.was_streaming
    /\ is_streaming
    /\ camera_type = "opencv"

\* C23: once construction of the stream object has finished, no step of
\* start_streaming, stop_streaming, get_frame, the streaming loop or cleanup
\* changes the backend tag or runs a probe again.
C23_TagNeverChanges ==
    [][cam_pc = "done"
           => /\ camera_type' = camera_type
              /\ cam_pc' = "done"
              /\ probe_log' = probe_log]_vars

\* The opencv backend is active, the loop has sent a frame, streaming was
\* stopped and cleanup() has released the handle.
C23_Witness ==
    /\ cam_pc = "done"
    /\ camera_type = "opencv"
    /\ handle["opencv"] = "released"
    /\ stream_call.op = "cleanup"
    /\ gen.pc = "finished" /\ gen.chunk = "frame"

\* An iteration of the loop has ended and the generator is at the loop test.
AfterIteration == gen.pc = "head" /\ gen.delay # 0

\* C25: in the streaming loop consecutive_errors is 0 after an iteration that
\* sent a captured frame and one more after every iteration that failed,
\* whether by a clean no-frame result or by an exception anywhere in the
\* iteration: it equals the number of failed iterations since the last
\* successful frame.
C25_ErrorCountIsFailedRun ==
    AfterIteration => gen.consecutive_errors = gen.failed

\* C26: the delay at the end of an iteration is 1.0 s if the iteration raised
\* an exception, whatever the counter; otherwise 0.5 s if consecutive_errors
\* is above 5 after the iteration's update; otherwise 1/framerate.
C26_DelayRule ==
    AfterIteration
        => gen.delay = (IF gen.raised THEN ErrorDelayMs
                        ELSE IF gen.consecutive_errors > ErrorThreshold
                        THEN DegradedDelayMs
                        ELSE FramePeriodMs)

\* An iteration raised with the counter above 5: the delay is 1.0 s.
C26_Witness ==
    /\ AfterIteration
    /\ gen.raised
    /\ gen.consecutive_errors > ErrorThreshold
    /\ gen.delay = ErrorDelayMs

\* Only clean no-frame results since the last frame sent (or since the
\* generator started).
CleanRun == AfterIteration /\ gen.clean /\ ~gen.raised

C28_NoExceptionEscapes == gen.pc # "escaped"

\* C29: while is_streaming stays true and the calls of the loop return, every
\* iteration sends exactly one chunk, the encoded frame when one was captured
\* and a placeholder otherwise, also with no backend or with every capture
\* failing; a consumer that keeps asking always gets another chunk (as long
\* as the counters are below the bound of the exploration).
C29_AlwaysAnotherChunk ==
    /\ [](AfterIteration
             => /\ gen.chunks = 1
                /\ gen.chunk = (IF gen.consecutive_errors = 0
                                THEN "frame" ELSE "placeholder"))
    /\ (gen.pc = "head" /\ is_streaming /\ CanIterate)
           ~> (gen.pc = "yielded" \/ ~is_streaming)

\* No backend is active; the loop has sent its fourth placeholder in a row.
C29_Witness ==
    /\ camera_type = "None"
    /\ is_streaming
    /\ gen.pc = "yielded"
    /\ gen.chunk = "placeholder"
    /\ gen.consecutive_errors = 4

\* C30: after stop_streaming() then start_streaming() the sequence of chunks
\* goes on for its consumer, also when the loop had read the stop before the
\* start: a sequence that has sent chunks is not at its end while streaming
\* is on.
C30_RestartResumes ==
    (is_streaming /\ gen.chunk # "none") => gen.pc # "finished"

\* The generator is inside an iteration, before its yield.
InFlight == gen.pc \in {"capture", "encode", "placeholder", "except"}

\* C31: a stop is observed only at the loop test: with streaming stopped and
\* not started again, the iteration in flight goes on to its yield and its
\* delay as it would have, at most one chunk is sent after the stop, and the
\* generator ends when it next tests is_streaming.
C31_StopObservedAtLoopTest ==
    /\ [](gen.chunks <= 1)
    /\ [][(~is_streaming /\ ~is_streaming' /\ gen' # gen)
             => /\ InFlight => gen'.pc # "finished"
                /\ gen.pc \in {"encode", "placeholder"}
                       => gen'.pc \in {"yielded", "except"}
                /\ gen.pc \in {"yielded", "yielded_error"}
                       => /\ gen'.pc = "head"
                          /\ gen'.delay =
                                 (IF gen.raised THEN ErrorDelayMs
                                  ELSE IF gen.consecutive_errors > ErrorThreshold
                                  THEN DegradedDelayMs
                                  ELSE FramePeriodMs)
                /\ gen.pc = "head" => gen'.pc = "finished"
                /\ gen.pc = "finished" => gen'.chunks = 0]_vars

\* Streaming was stopped; the generator sent the placeholder of the iteration
\* in flight, slept, tested is_streaming and ended.
C31_Witness ==
    /\ ~is_streaming
    /\ stream_call.op = "stop_streaming"
    /\ gen.pc = "finished"
    /\ gen.chunk = "placeholder" /\ gen.chunks = 1
    /\ gen.delay = FramePeriodMs

\* The capture calls in flight on the handle.
Reading == {t \in Threads : viewers[t].pc = "reading"}

\* C32: at most one capture call is in flight on the one capture handle at
\* any time, however many viewers consume generate_frames() concurrently.
C32_OneReadInFlight == Cardinality(Reading) <= 1

\* Both direction pins of one motor side are high.
BothHigh(ps, side) == Get(ps, side.forward) = 1 /\ Get(ps, side.backward) = 1

\* C33: the controller has no protection against concurrent calls: a thread
\* can enter move_forward or move_backward whatever the other threads are
\* doing, and each write of a call in progress is applied as soon as its
\* thread runs; so the writes of concurrent calls interleave.
C33_NoProtection ==
    \A t \in Threads :
        /\ (phase = "ready" /\ frame[t].status = "idle")
               => \A op \in {"move_forward", "move_backward"} :
                      \A s \in ThreadedSpeeds : ENABLED HandlerCall(t, op, s)
        /\ frame[t].status = "running" => ENABLED StepOk(t)

\* move_forward and move_backward, issued concurrently, have both completed
\* and a motor side is left with its forward and its backward pin high.
C33_Witness ==
    \E t, u \in Threads :
        /\ frame[t].op = "move_forward" /\ frame[t].status = "ok"
        /\ frame[u].op = "move_backward" /\ frame[u].status = "ok"
        /\ \E side \in Sides : BothHigh(pin_states, side)

\* The serialized caller is between two operations of a live controller.
Boundary == phase = "ready" /\ F.status \in {"idle", "ok", "raised"}

\* Exactly one of the two direction pins of a side is high.
OneHigh(ps, side) == Get(ps, side.forward) + Get(ps, side.backward) = 1

BothLow(ps, side) == Get(ps, side.forward) = 0 /\ Get(ps, side.backward) = 0

\* The values of last_cmd that name a directional command that completed.
CompletedCmds == DirectionalOps \cup {"move_forward_in_seconds"}

\* The direction pins at the boundaries where the directional command that
\* ended last, if any, completed.
DirectionSettled ==
    Boundary
        => /\ last_cmd = "none" => \A side \in Sides : BothLow(pin_states, side)
           /\ last_cmd \in CompletedCmds
                  => \A side \in Sides : OneHigh(pin_states, side)

WriteOrder ==
    << left_motor_pins.forward, left_motor_pins.backward,
       right_motor_pins.forward, right_motor_pins.backward,
       left_motor_pins.enable, right_motor_pins.enable >>

\* C35: every directional operation writes the left direction pins, then the
\* right direction pins, then the left enable, then the right enable; so
\* until all four direction writes are made both enable lines carry the duty
\* the operation found, also when the direction is being reversed.
C35_DirectionBeforeEnable ==
    F.op \in DirectionalOps
        => /\ Len(F.log) <= Len(WriteOrder)
           /\ \A k \in 1..Len(F.log) : F.log[k].pin = WriteOrder[k]
           /\ (F.status = "ok") => (Len(F.log) = Len(WriteOrder))
           /\ Len(F.log) <= Cardinality(DirPins)
                  => \A p \in EnablePins :
                         Get(pin_states, p) = Get(F.snap, p)

\* move_backward entered while moving forward at duty 50: all four direction
\* pins are reversed and both enable lines still carry 50.
C35_Witness ==
    /\ F.op = "move_backward" /\ F.status = "running"
    /\ DirPinsOf(F.snap) = <<1, 0, 1, 0>>
    /\ DirPinsOf(pin_states) = <<0, 1, 0, 1>>
    /\ Get(pin_states, 22) = 50 /\ Get(pin_states, 25) = 50
    /\ ~HasFailure(F)

\* C36: a directional operation that fails part-way is not rolled back: when
\* its k-th set_pin raises, the pins of the first k-1 writes hold their new
\* values, the pin of the k-th write and all later pins hold what they held
\* when the operation was entered (both enable lines keep the previous duty
\* when the failure is in a direction write), no further write is made, and
\* the error reaches the caller.
C36_NoRollback ==
    (F.op \in DirectionalOps /\ HasFailure(F))
        => LET k == Len(F.log)
           IN  /\ F.log[k].k = "fail"
               /\ F.status = "raised" /\ F.prog = << >>
               /\ \A j \in 1..(k - 1) :
                      /\ F.log[j] = MoveProg(F.op, F.speed)[j]
                      /\ Get(pin_states, WriteOrder[j])
                             = Get(TableAfter(F), WriteOrder[j])
                      /\ WriteOrder[j] \in DirPins
                             => Get(pin_states, WriteOrder[j]) = F.log[j].val
               /\ \A j \in k..Len(WriteOrder) :
                      Get(pin_states, WriteOrder[j]) = Get(F.snap, WriteOrder[j])
               /\ k <= Cardinality(DirPins)
                      => \A p \in EnablePins :
                             Get(pin_states, p) = Get(F.snap, p)

\* move_backward entered while moving forward at duty 50; its third write
\* raised: the left side is reversed, the right side is not, and both enable
\* lines still carry 50.
C36_Witness ==
    /\ driver = "real"
    /\ F.op = "move_backward" /\ F.status = "raised"
    /\ F.log = <<Set(17, 0), Set(18, 1), Failed(Set(23, 0))>>
    /\ DirPinsOf(F.snap) = <<1, 0, 1, 0>>
    /\ DirPinsOf(pin_states) = <<0, 1, 1, 0>>
    /\ Get(pin_states, 22) = 50 /\ Get(pin_states, 25) = 50

\* A driver of kind drv as its constructor leaves it.
FreshDrv(drv) ==
    [ps |-> EmptyTable, pwm |-> {}, run |-> {}, hw |-> [p \in Pins |-> 0],
     duty |-> EmptyTable, open |-> (drv = "real")]

RECURSIVE RunAllOn(_, _, _)
\* The state of a driver of kind drv after every instruction of prog
\* succeeded from d.
RunAllOn(drv, d, prog) ==
    IF prog = << >> THEN d
    ELSE RunAllOn(drv, ExecOn(drv, d, Head(prog)), Tail(prog))

\* The pin table a controller over a driver of kind drv records at the end
\* of the operation of frame f, entered with the table f.snap: construction
\* starts from the fresh driver, a motor operation from the driver that
\* construction built.
TableOn(drv, f) ==
    IF f.op = "init" THEN RunAllOn(drv, FreshDrv(drv), SetupProg).ps
    ELSE RunAllOn(drv,
                  [RunAllOn(drv, FreshDrv(drv), SetupProg) EXCEPT !.ps = f.snap],
                  Prog(f.op, f.speed)).ps

\* Two pin tables record the same value for each pin of S.
SameOn(S, a, b) == \A p \in S : p \in DOMAIN a /\ p \in DOMAIN b /\ a[p] = b[p]

\* C37: driver parity: construction and every motor operation with a speed
\* in [0,1], completed without I/O failure from the same pin table, end with
\* the same recorded values for the six motor pins on the simulated and on
\* the hardware driver, and that table is the one the driver in use records;
\* with a speed outside [0,1] the tables still agree on the direction pins.
C37_DriverParity ==
    (F.op \in MotorOps \cup {"init"} /\ F.status = "ok" /\ ~HasFailure(F))
        => /\ pin_states = TableOn(driver, F)
           /\ SameOn(DirPins, TableOn("mock", F), TableOn("real", F))
           /\ InContract(F.speed)
                  => SameOn(Pins, TableOn("mock", F), TableOn("real", F))

\* turn_left(1.0) completed on the hardware driver: both enable lines record
\* 100, as the simulated driver records them.
C37_Witness ==
    /\ driver = "real"
    /\ F.op = "turn_left" /\ F.status = "ok" /\ F.speed = SpeedScale
    /\ ~HasFailure(F)
    /\ Get(pin_states, 22) = PwmMax /\ Get(pin_states, 25) = PwmMax
    /\ TableOn("mock", F) = pin_states

====
